---- MODULE Spec2Model ----
(***************************************************************************)
(* A model of konica_lscs.KonicaDevice, the facade over the Konica Minolta *)
(* LC-MISDK.  The vendor layer (the .NET SDK singleton and the instruments *)
(* behind it) is the environment: every vendor call answers with a result  *)
(* code, and for calls with an out parameter with a result shape and a     *)
(* value, chosen by the environment.  The facade's handlers are translated *)
(* from src/src/konica_lscs/__init__.py.                                   *)
(*                                                                         *)
(* The specifications share the variables:                                 *)
(*   Spec          construction, connection, scoped use, measurement with  *)
(*                 its poll loop, sample reads and the plain commands and  *)
(*                 queries, on one facade;                                 *)
(*   LifeSpec      the life cycles of several facades in one process;      *)
(*   SettingsSpec  the enumerated settings (setters and getters), one      *)
(*                 setting per behaviour, on a constructed facade;         *)
(*   DataSpec      the sample store and the displayed value;               *)
(*   ErrorSpec     the error translator on every result envelope;          *)
(*   WaitSpec      measurement with the fairness of the calling thread.    *)
(***************************************************************************)
EXTENDS Integers, Sequences, FiniteSets, TLC

VARIABLES
    cwd,      \* the process working directory (os.getcwd())
    obj,      \* obj[i]: facade instance i: exists?, self.sdk, self._original_cwd, in a with block?
    conn,     \* conn[p]: 0 when virtual COM port p is closed, else the instance that opened it
    meas,     \* the measurement status the polled instrument is in
    op,       \* the facade call in flight (or the last one): name, instance, port, wait, pc
    res,      \* how the last finished call ended: returned value or the exception raised
    log,      \* the vendor calls and sleeps the call in flight (or the last one) made
    polls,    \* status polls issued by the call in flight (saturating at MaxPolls)
    exitRec,  \* the last __exit__: instance, exception in the block, disconnects, propagated
    setting,  \* SettingsSpec: the setting this behaviour exercises
    stored,   \* SettingsSpec: the vendor code the instrument holds for that setting
    lastSet,  \* SettingsSpec: the key of the last successful set still held by the instrument
    enumBase, \* the vendor code of the first member of each vendor enum (0 or 1)
    enumAsInt, \* TRUE when the .NET bridge hands enum values to Python as int
    samples,  \* the number of measurements the instrument holds in its sample store
    closed    \* history: the instances whose disconnect() has returned

vars == <<cwd, obj, conn, meas, op, res, log, polls, exitRec,
          setting, stored, lastSet, enumBase, enumAsInt, samples, closed>>

lifeVars == <<cwd, obj, conn, exitRec, closed>>
settingVars == <<setting, stored, lastSet, enumBase, enumAsInt>>

----------------------------------------------------------------------------
(* Bounds of the model *)

NumInstances == 2
MaxPort == 1
MaxPolls == 3
MaxLog == 5
MaxSamples == 1
MaxReading == 1

Instances == 1..NumInstances
Ports == 0..MaxPort

----------------------------------------------------------------------------
(* Program constants *)

\* error_map: the vendor result codes the facade names
KmSuccess == 0
ErNoConnect == 10
ErNoData == 45
ErReadFailed == 170
ErMeasurementFailed == 200

\* a code error_map does not list
UnlistedCode == ErMeasurementFailed + 1

\* the result codes the environment draws a vendor answer from
FailCodes == {ErNoConnect, ErNoData, UnlistedCode}
Codes == {KmSuccess} \cup FailCodes

\* time.sleep(0.1) of the poll loop and time.sleep(0.2) after it, in ms
PollIntervalMs == 100
SettleMs == 200

NoCode == KmSuccess - 1

Dirs == {"start", "sdk_bin"}
Statuses == {"Idling", "Measuring", "Other"}

----------------------------------------------------------------------------
(* Outcomes of a call and the log of what it did *)

Returned(v) == [kind |-> "ok", code |-> NoCode, val |-> v]
Raised(k, c) == [kind |-> k, code |-> c, val |-> "-"]
NoResult == [kind |-> "none", code |-> NoCode, val |-> "-"]

\* a vendor call: the function, the port it addresses, the code it answered, a detail
VendorCall(fn, p, c, st) == [kind |-> "call", fn |-> fn, port |-> p, n |-> c, st |-> st]
SleepEv(ms) == [kind |-> "sleep", fn |-> "time.sleep", port |-> 0, n |-> ms, st |-> "-"]

\* The log keeps the first entry and the latest MaxLog - 1: the poll loop is unbounded.
Push(l, e) ==
    IF Len(l) < MaxLog THEN Append(l, e)
    ELSE <<l[1]>> \o SubSeq(l, 3, Len(l)) \o <<e>>

\* fault model: _check_error raising only for the codes error_map lists
CheckErrorListedOnly(c) == c # KmSuccess /\ c # UnlistedCode

\* fault model: a missing connection treated as a result to pass on, not an error
CheckErrorPassesNoConnect(c) == c # KmSuccess /\ c # ErNoConnect

\* _check_error: raises exactly when the result code is not KmSuccess
CheckErrorRaises(c) == c # KmSuccess

\* the outcome of "_check_error(ret); return v"
CheckedReturn(c, v) == IF CheckErrorRaises(c) THEN Raised("RuntimeError", c) ELSE Returned(v)

NoOp == [name |-> "none", inst |-> 0, port |-> 0, wait |-> FALSE, arg |-> "-", pc |-> "done"]
Idle == op.pc = "done"
Live(i) == obj[i].exists

Begin(name, i, p, w, pc) ==
    [name |-> name, inst |-> i, port |-> p, wait |-> w, arg |-> "-", pc |-> pc]

\* a finished call that took the argument a
BeginArg(name, i, p, a) ==
    [name |-> name, inst |-> i, port |-> p, wait |-> FALSE, arg |-> a, pc |-> "done"]

----------------------------------------------------------------------------
(* Construction, connection, scoped use *)

NoObject == [exists |-> FALSE, sdk |-> FALSE, original_cwd |-> "", scoped |-> FALSE]
NoExit == [inst |-> 0, exc |-> "none", disc |-> 0, propagated |-> FALSE]

\* the default of every com_port parameter
DefaultPort == 0

LifeInit ==
    /\ cwd = "start"
    /\ obj = [i \in Instances |-> NoObject]
    /\ conn = [p \in Ports |-> 0]
    /\ exitRec = NoExit
    /\ closed = {}

CallInit ==
    /\ meas = "Idling"
    /\ op = NoOp
    /\ res = NoResult
    /\ log = <<>>
    /\ polls = 0

\* the sample store of the instrument when the process starts
StoreInit == samples = MaxSamples

\* fault model: an except branch that re-raises without changing back
InitFailureStaysInSdkBin(original) == "sdk_bin"

\* __init__, lines 48-53: the cwd the except branch leaves behind
InitFailureCwd(original) == original

\* __init__ when os.path.exists(sdk_bin) is false: raises before anything is changed
ConstructNoFolder(i) ==
    /\ Idle /\ ~Live(i)
    /\ op' = Begin("__init__", i, DefaultPort, FALSE, "done")
    /\ res' = Raised("FileNotFoundError", NoCode)
    /\ log' = <<>> /\ polls' = 0
    /\ UNCHANGED <<lifeVars, meas, settingVars, samples>>

\* __init__ when _setup_environment or _initialize_sdk raises: chdir back, RuntimeError
ConstructInitFails(i) ==
    /\ Idle /\ ~Live(i)
    /\ cwd' = InitFailureCwd(cwd)
    /\ op' = Begin("__init__", i, DefaultPort, FALSE, "done")
    /\ res' = Raised("RuntimeError", NoCode)
    /\ log' = <<>> /\ polls' = 0
    /\ UNCHANGED <<obj, conn, exitRec, closed, meas, settingVars, samples>>

\* __init__ succeeding: records the cwd, changes into sdk_bin, loads the SDK
Construct(i) ==
    /\ Idle /\ ~Live(i)
    /\ obj' = [obj EXCEPT ![i] = [exists |-> TRUE, sdk |-> TRUE,
                                  original_cwd |-> cwd, scoped |-> FALSE]]
    /\ cwd' = "sdk_bin"
    /\ op' = Begin("__init__", i, DefaultPort, FALSE, "done")
    /\ res' = Returned("None")
    /\ log' = <<>> /\ polls' = 0
    /\ UNCHANGED <<conn, exitRec, closed, meas, settingVars, samples>>

\* connect(com_port)
Connect(i, p) ==
    /\ Idle /\ Live(i)
    /\ op' = Begin("connect", i, p, FALSE, "done")
    /\ polls' = 0
    /\ IF ~obj[i].sdk
          THEN /\ res' = Raised("RuntimeError", NoCode)
               /\ log' = <<>>
               /\ conn' = conn
          ELSE \E c \in Codes :
               /\ log' = <<VendorCall("Connect", p, c, "-")>>
               /\ conn' = IF c = KmSuccess THEN [conn EXCEPT ![p] = i] ELSE conn
               /\ res' = CheckedReturn(c, "None")
    /\ UNCHANGED <<cwd, obj, exitRec, closed, meas, settingVars, samples>>

\* what the vendor DisConnect call can do: return a code, or throw
DisConnectOutcomes == {"returns", "throws"}

\* fault model: disconnect leaving the cwd where it is
DisconnectKeepsCwd(original, current) == current

\* disconnect, lines 177-178: the cwd after the cleanup
DisconnectCwd(original, current) == IF original # "" THEN original ELSE current

\* fault model: disconnect without the try/except around the vendor call
DisconnectUnguarded(d) == d = "throws"

\* fault model: disconnect that lets through whatever the vendor call does not return
DisconnectCatchesNothing(d) == d # "returns"

\* disconnect, lines 171-175: does an exception of the vendor call leave disconnect?
DisconnectPropagates(d) == FALSE

\* the body of disconnect(q) on instance i, the vendor call ending as d with code c
DoDisconnect(i, q, d, c) ==
    /\ log' = IF obj[i].sdk
                 THEN <<VendorCall("DisConnect", q, IF d = "throws" THEN NoCode ELSE c, d)>>
                 ELSE <<>>
    /\ conn' = IF obj[i].sdk /\ d = "returns" /\ c = KmSuccess
                  THEN [conn EXCEPT ![q] = 0] ELSE conn
    /\ cwd' = IF obj[i].sdk /\ d = "throws" /\ DisconnectPropagates(d)
                 THEN cwd ELSE DisconnectCwd(obj[i].original_cwd, cwd)

DisconnectResult(i, d) ==
    IF obj[i].sdk /\ d = "throws" /\ DisconnectPropagates(d)
       THEN Raised("VendorException", NoCode) ELSE Returned("None")

\* disconnect(com_port)
Disconnect(i, q) ==
    /\ Idle /\ Live(i)
    /\ \E d \in DisConnectOutcomes, c \in Codes :
          /\ (d = "throws" => c = KmSuccess)
          /\ DoDisconnect(i, q, d, c)
          /\ res' = DisconnectResult(i, d)
    /\ closed' = closed \cup {i}
    /\ op' = Begin("disconnect", i, q, FALSE, "done")
    /\ polls' = 0
    /\ UNCHANGED <<obj, exitRec, meas, settingVars, samples>>

\* __enter__: returns self
EnterScope(i) ==
    /\ Idle /\ Live(i) /\ ~obj[i].scoped
    /\ obj' = [obj EXCEPT ![i].scoped = TRUE]
    /\ op' = Begin("__enter__", i, DefaultPort, FALSE, "done")
    /\ res' = Returned("self")
    /\ log' = <<>> /\ polls' = 0
    /\ UNCHANGED <<cwd, conn, exitRec, closed, meas, settingVars, samples>>

\* fault model: __exit__ returning True
ExitReturnsTrue == TRUE

\* __exit__, line 1560: the value it returns (true would suppress the exception)
ExitReturn == FALSE

\* __exit__, line 1559: the number of disconnect() calls it makes
ExitDisconnects == 1

IsError(r) == r.kind \notin {"ok", "none"}

\* The exceptions that can be leaving the with block of instance i: none (the block
\* completed) or the one the last call on i raised.
LeavingWith(i) ==
    {"none"} \cup (IF op.inst = i /\ IsError(res) THEN {res.kind} ELSE {})

\* __exit__(exc_type, ...): leaving the with block, exc the exception leaving it
ExitScope(i, exc) ==
    /\ Idle /\ Live(i) /\ obj[i].scoped
    /\ exc \in LeavingWith(i)
    /\ \E d \in DisConnectOutcomes, c \in Codes :
          /\ (d = "throws" => c = KmSuccess)
          /\ IF ExitDisconnects >= 1
                THEN DoDisconnect(i, DefaultPort, d, c)
                ELSE UNCHANGED <<log, conn, cwd>>
          /\ res' = IF IsError(DisconnectResult(i, d)) /\ ExitDisconnects >= 1
                       THEN DisconnectResult(i, d)
                       ELSE IF exc # "none" /\ ~ExitReturn THEN res ELSE Returned("None")
    /\ exitRec' = [inst |-> i, exc |-> exc, disc |-> ExitDisconnects,
                   propagated |-> exc # "none" /\ ~ExitReturn]
    /\ obj' = [obj EXCEPT ![i].scoped = FALSE]
    /\ closed' = IF ExitDisconnects >= 1 THEN closed \cup {i} ELSE closed
    /\ op' = Begin("__exit__", i, DefaultPort, FALSE, "done")
    /\ polls' = 0
    /\ UNCHANGED <<meas, settingVars, samples>>

----------------------------------------------------------------------------
(* Measurement and the poll loop *)

\* the shapes a vendor call with an out parameter comes back in through the bridge:
\* the (status, value) pair, something that is no tuple, a tuple of another length
Shapes == {"tuple", "other", "tuple3"}

\* What becomes of a result of the given shape before its status is looked at: a
\* handler raises RuntimeError on what its test rejects ("isinstance(result, tuple)",
\* or that and "len(result) != 2"), and "ret, value = result" raises ValueError on a
\* tuple of another length that the test let through.
Unpack(shape, lenChecked) ==
    IF shape = "tuple" THEN "ok"
    ELSE IF shape = "other" \/ lenChecked THEN "RuntimeError"
    ELSE "ValueError"

\* what the log keeps of a result that is not the (status, value) pair
ShapeNote(shape) == IF shape = "other" THEN "nontuple" ELSE "badtuple"

\* polling_measurement, lines 230-235: the status string of a vendor MeasStatus
StatusStr(state) ==
    IF state = "Idling" THEN "idling"
    ELSE IF state = "Measuring" THEN "measuring"
    ELSE "unknown"

\* polling_measurement: the outcome of one poll answered with (shape, c, state)
PollOutcome(shape, c, state) ==
    IF shape # "tuple" THEN Raised(Unpack(shape, FALSE), NoCode)
    ELSE IF CheckErrorRaises(c) THEN Raised("RuntimeError", c)
    ELSE Returned(StatusStr(state))

\* fault model: a loop that gives up after its first poll
LoopExitAlways(status_str) == TRUE

\* fault model: a loop without its break
LoopExitNever(status_str) == FALSE

\* fault model: a loop that ends only when the instrument reports Idling
LoopExitOnIdlingOnly(status_str) == status_str = "idling"

\* wait_for_idle, lines 244-245: does the loop end on this status string?
LoopExit(status_str) == status_str # "measuring"

\* fault model: measure waiting for the instrument whatever its wait argument
AfterMeasureAlwaysWaits(wait) == "poll"

\* measure, lines 212-214: where a call goes once the Measure command succeeded
AfterMeasure(wait) == IF wait THEN "poll" ELSE "done"

\* fault model: measure returning straight after the loop, without the settle delay
AfterWaitNoSettle(name) == "done"

\* where a call goes when its poll loop ended: measure sleeps 0.2 s, wait_for_idle returns
AfterWait(name) == IF name = "measure" THEN "settle" ELSE "done"

PollEntry(p, shape, c, state) ==
    IF shape = "tuple" THEN VendorCall("PollingMeasurement", p, c, state)
    ELSE VendorCall("PollingMeasurement", p, NoCode, ShapeNote(shape))

Bump(n) == IF n < MaxPolls THEN n + 1 ELSE n

\* measure(wait, com_port): the vendor Measure call and _check_error
Measure(i, p, w) ==
    /\ Idle /\ Live(i)
    /\ \E c \in Codes :
          /\ log' = <<VendorCall("Measure", p, c, "-")>>
          /\ IF CheckErrorRaises(c)
                THEN /\ op' = Begin("measure", i, p, w, "done")
                     /\ res' = Raised("RuntimeError", c)
                     /\ meas' = meas
                ELSE /\ op' = Begin("measure", i, p, w, AfterMeasure(w))
                     /\ res' = IF AfterMeasure(w) = "done" THEN Returned("None") ELSE NoResult
                     /\ meas' \in Statuses
    /\ polls' = 0
    /\ UNCHANGED <<lifeVars, settingVars, samples>>

\* wait_for_idle(com_port) called directly: enters the loop
WaitForIdle(i, p) ==
    /\ Idle /\ Live(i)
    /\ op' = Begin("wait_for_idle", i, p, TRUE, "poll")
    /\ res' = NoResult
    /\ log' = <<>> /\ polls' = 0
    /\ meas' \in Statuses
    /\ UNCHANGED <<lifeVars, settingVars, samples>>

\* one pass of the loop of wait_for_idle: polling_measurement, then break or go to sleep
Poll ==
    /\ op.pc = "poll"
    /\ \E shape \in Shapes, c \in Codes :
          /\ (shape # "tuple" => c = KmSuccess)
          /\ log' = Push(log, PollEntry(op.port, shape, c, meas))
          /\ LET out == PollOutcome(shape, c, meas) IN
             IF IsError(out)
                THEN /\ op' = [op EXCEPT !.pc = "done"]
                     /\ res' = out
                ELSE IF LoopExit(out.val)
                THEN /\ op' = [op EXCEPT !.pc = AfterWait(op.name)]
                     /\ res' = IF AfterWait(op.name) = "done" THEN Returned("None") ELSE res
                ELSE /\ op' = [op EXCEPT !.pc = "sleep"]
                     /\ res' = res
    /\ polls' = Bump(polls)
    /\ UNCHANGED <<lifeVars, meas, settingVars, samples>>

\* time.sleep(0.1), line 247
PollSleep ==
    /\ op.pc = "sleep"
    /\ log' = Push(log, SleepEv(PollIntervalMs))
    /\ op' = [op EXCEPT !.pc = "poll"]
    /\ UNCHANGED <<lifeVars, meas, res, polls, settingVars, samples>>

\* time.sleep(0.2), line 214, and the return of measure
Settle ==
    /\ op.pc = "settle"
    /\ log' = Push(log, SleepEv(SettleMs))
    /\ op' = [op EXCEPT !.pc = "done"]
    /\ res' = Returned("None")
    /\ UNCHANGED <<lifeVars, meas, polls, settingVars, samples>>

\* The instrument moves between its states on its own while a call waits on it.
InstrumentChange(s) ==
    /\ op.pc \in {"poll", "sleep", "settle"}
    /\ s # meas
    /\ meas' = s
    /\ UNCHANGED <<lifeVars, op, res, log, polls, settingVars, samples>>

\* polling_measurement(com_port) called directly
PollingMeasurement(i, p) ==
    /\ Idle /\ Live(i)
    /\ \E shape \in Shapes, c \in Codes, s \in Statuses :
          /\ (shape # "tuple" => c = KmSuccess /\ s = "Idling")
          /\ log' = <<PollEntry(p, shape, c, s)>>
          /\ res' = PollOutcome(shape, c, s)
    /\ op' = Begin("polling_measurement", i, p, FALSE, "done")
    /\ polls' = 1
    /\ UNCHANGED <<lifeVars, meas, settingVars, samples>>

----------------------------------------------------------------------------
(* Stored samples, plain commands and plain queries *)

\* fault model: a second read after any failure of the first
SecondReadOnAnyFailure(c1) == c1 # KmSuccess

\* fault model: read_sample_data without its fallback read
SecondReadNever(c1) == FALSE

\* read_sample_data, lines 364-377: is the second read (as Lvxy) made?
SecondRead(c1) == c1 # KmSuccess /\ c1 = ErNoData

\* the data numbers a caller passes: 0, the stored ones, one beyond the largest bound
DataNumbers == 0..(MaxSamples + 1)

\* delete_sample_data, line 379: the data_number that stands for "all"
DeleteAll == -1

\* The sample store of the instrument numbers its n samples 1..n.
StoreHolds(d, n) == 1 <= d /\ d <= n

\* The codes the vendor may answer a read or delete of sample d: a sample the store
\* does not hold is never delivered or deleted.
StoreAnswers(d, n) == IF StoreHolds(d, n) \/ d = DeleteAll THEN Codes ELSE FailCodes

\* a vendor call that takes a data number
SampleCall(fn, p, c, st, d) ==
    [kind |-> "call", fn |-> fn, port |-> p, n |-> c, st |-> st, number |-> d]

\* read_sample_data: the vendor calls made when the reads of sample d answer c1, c2
ReadSampleCalls(p, d, c1, c2) ==
    IF SecondRead(c1)
       THEN <<SampleCall("ReadSampleData", p, c1, "XYZ", d),
              SampleCall("ReadSampleData", p, c2, "Lvxy", d)>>
       ELSE <<SampleCall("ReadSampleData", p, c1, "XYZ", d)>>

\* fault model: read_sample_data returning without the final _check_error
ReadSampleOutcomeSilent(c1, c2) ==
    IF c1 = KmSuccess THEN Returned("XYZ")
    ELSE IF SecondRead(c1) /\ c2 = KmSuccess THEN Returned("Lvxy")
    ELSE Returned("None")

\* read_sample_data: its outcome when the reads answer c1, c2
ReadSampleOutcome(c1, c2) ==
    IF c1 = KmSuccess THEN Returned("XYZ")
    ELSE IF SecondRead(c1) /\ c2 = KmSuccess THEN Returned("Lvxy")
    ELSE LET last == IF SecondRead(c1) THEN c2 ELSE c1 IN
         CheckedReturn(last, "None")

\* read_sample_data(data_number, com_port)
ReadSampleData(i, d, p) ==
    /\ Idle /\ Live(i)
    /\ \E c1 \in StoreAnswers(d, samples), c2 \in StoreAnswers(d, samples) \cup {KmSuccess} :
          /\ (~SecondRead(c1) => c2 = KmSuccess)
          /\ (SecondRead(c1) => c2 \in StoreAnswers(d, samples))
          /\ log' = ReadSampleCalls(p, d, c1, c2)
          /\ res' = ReadSampleOutcome(c1, c2)
    /\ op' = BeginArg("read_sample_data", i, p, ToString(d))
    /\ polls' = 0
    /\ UNCHANGED <<lifeVars, meas, settingVars, samples>>

\* fault model: delete_sample_data asking for the count before it deletes
DeleteCallsCounted(p, d, c) ==
    <<VendorCall("GetNumberOfSampleData", p, KmSuccess, "-"),
      SampleCall("DeleteSampleData", p, c, "-", d)>>

\* delete_sample_data, line 387: the vendor calls it makes, data_number passed as given
DeleteCalls(p, d, c) == <<SampleCall("DeleteSampleData", p, c, "-", d)>>

\* the store after a delete of d answered with c
StoreAfterDelete(d, c, n) ==
    IF c # KmSuccess THEN n
    ELSE IF d = DeleteAll THEN 0
    ELSE n - 1

\* delete_sample_data(data_number, com_port)
DeleteSampleData(i, d, p) ==
    /\ Idle /\ Live(i)
    /\ \E c \in StoreAnswers(d, samples) :
          /\ log' = DeleteCalls(p, d, c)
          /\ res' = CheckedReturn(c, "None")
          /\ samples' = StoreAfterDelete(d, c, samples)
    /\ op' = BeginArg("delete_sample_data", i, p, ToString(d))
    /\ polls' = 0
    /\ UNCHANGED <<lifeVars, meas, settingVars>>

\* the operations of the shape "ret = sdk.F(...); _check_error(ret)"
Commands == {"cancel_measurement"}

\* the operations of the shape "result = sdk.F(...); tuple?; _check_error(ret); return value"
Queries == {"get_device_list", "get_number_of_samples", "get_device_info", "get_sdk_version"}

\* the queries that read the displayed value
DisplayQueries == {"read_display_value", "get_color"}

\* the port a vendor call addresses: the com_port passed on, or the SDK's default
PortUsed(passes, p) == IF passes THEN p ELSE DefaultPort

\* the operations that pass their com_port on to the vendor call
PassesPort(name) == name \in {"cancel_measurement", "get_number_of_samples"}

VendorFn(name) ==
    CASE name = "cancel_measurement" -> "CancelMeasurement"
      [] name = "get_device_list" -> "GetDeviceList"
      [] name = "get_number_of_samples" -> "GetNumberOfSampleData"
      [] name = "get_device_info" -> "GetDeviceInfo"
      [] name = "get_sdk_version" -> "GetSDKVersion"
      [] name \in {"read_display_value", "get_color"} -> "ReadDisplayValue"

\* a query's outcome when the vendor answers (shape, c)
QueryOutcome(shape, c, v) ==
    IF shape # "tuple" THEN Raised(Unpack(shape, FALSE), NoCode)
    ELSE CheckedReturn(c, v)

\* what a query returns: get_number_of_samples returns int(count)
QueryValue(name) == IF name = "get_number_of_samples" THEN ToString(samples) ELSE "value"

Command(i, name, p) ==
    /\ Idle /\ Live(i)
    /\ \E c \in Codes :
          /\ log' = <<VendorCall(VendorFn(name), PortUsed(PassesPort(name), p), c, "-")>>
          /\ res' = CheckedReturn(c, "None")
    /\ op' = Begin(name, i, p, FALSE, "done")
    /\ polls' = 0
    /\ UNCHANGED <<lifeVars, meas, settingVars, samples>>

Query(i, name, p) ==
    /\ Idle /\ Live(i)
    /\ \E shape \in Shapes, c \in Codes :
          /\ (shape # "tuple" => c = KmSuccess)
          /\ log' = <<VendorCall(VendorFn(name), PortUsed(PassesPort(name), p),
                                 IF shape = "tuple" THEN c ELSE NoCode,
                                 IF shape = "tuple" THEN "-" ELSE ShapeNote(shape))>>
          /\ res' = QueryOutcome(shape, c, QueryValue(name))
    /\ op' = Begin(name, i, p, FALSE, "done")
    /\ polls' = 0
    /\ UNCHANGED <<lifeVars, meas, settingVars, samples>>

----------------------------------------------------------------------------
(* The displayed value and get_luminance *)

\* the channel names ColorSpaceValue.Keys can hold: none (no ColorSpaceValue), the
\* Lvxy, XYZ and xy displays, and a display reporting both Lv and Y
ChannelSets == {{}, {"Lv", "x", "y"}, {"X", "Y", "Z"}, {"x", "y"}, {"Lv", "Y"}}

\* the values a channel is displayed with
Readings == 0..MaxReading

\* what the instrument displays: the channels reported and the values of Lv and Y
\* (0 stands in for the value of a channel that is not reported)
Displays ==
    {d \in [chans : ChannelSets, Lv : Readings, Y : Readings] :
        /\ ("Lv" \notin d.chans => d.Lv = 0)
        /\ ("Y" \notin d.chans => d.Y = 0)
        /\ ({"Lv", "Y"} \subseteq d.chans => d.Lv # d.Y)}

\* the display data of a call that delivered none
NoDisplay == [chans |-> {}, Lv |-> 0, Y |-> 0]

\* the ReadDisplayValue() call: it is made without com_port
DisplayCall(shape, c, d) ==
    [kind |-> "call", fn |-> "ReadDisplayValue", port |-> DefaultPort,
     n |-> IF shape = "tuple" THEN c ELSE NoCode,
     st |-> IF shape = "tuple" THEN "-" ELSE ShapeNote(shape),
     data |-> d]

\* fault model: get_luminance looking for Y before Lv
LuminanceChannelYFirst(chans) ==
    IF "Y" \in chans THEN "Y" ELSE IF "Lv" \in chans THEN "Lv" ELSE "none"

\* get_luminance, lines 322-327: the channel whose value is returned
LuminanceChannel(chans) ==
    IF "Lv" \in chans THEN "Lv" ELSE IF "Y" \in chans THEN "Y" ELSE "none"

\* get_luminance: read_display_value's checks, then the channel lookup
LuminanceOutcome(shape, c, d) ==
    IF shape # "tuple" THEN Raised(Unpack(shape, FALSE), NoCode)
    ELSE IF CheckErrorRaises(c) THEN Raised("RuntimeError", c)
    ELSE IF LuminanceChannel(d.chans) = "Lv" THEN Returned(ToString(d.Lv))
    ELSE IF LuminanceChannel(d.chans) = "Y" THEN Returned(ToString(d.Y))
    ELSE Raised("ValueError", NoCode)

\* get_luminance(com_port)
GetLuminance(i, p) ==
    /\ Idle /\ Live(i)
    /\ \E shape \in Shapes, c \in Codes, d \in Displays :
          /\ (shape # "tuple" => c = KmSuccess)
          /\ (shape # "tuple" \/ c # KmSuccess => d = NoDisplay)
          /\ log' = <<DisplayCall(shape, c, d)>>
          /\ res' = LuminanceOutcome(shape, c, d)
    /\ op' = Begin("get_luminance", i, p, FALSE, "done")
    /\ polls' = 0
    /\ UNCHANGED <<lifeVars, meas, settingVars, samples>>

----------------------------------------------------------------------------
(* The enumerated settings: tables, setters, getters *)

\* The keys each setter's table lists, in the order the table lists them.  The flags
\* (bool parameters) are the two members of their On/Off vendor enum; the backlight
\* levels and the display digits are listed under their decimal spelling.
KeyTable ==
    [measurement_time |-> <<"auto", "manual">>,
     sync_mode |-> <<"False", "True">>,
     peak_valley |-> <<"off", "peak", "valley">>,
     close_up_lens |-> <<"standard", "no153", "no135", "no122", "no110">>,
     ccf |-> <<"off", "on">>,
     auto_power_off |-> <<"False", "True">>,
     backlight |-> <<"False", "True">>,
     backlight_level |-> <<"1", "2", "3", "4", "5">>,
     color_display_digits |-> <<"3", "4">>,
     display_type |-> <<"absolute", "difference", "ratio">>,
     display_language |-> <<"english", "japanese", "chinese">>,
     date_format |-> <<"ymd", "mdy", "dmy">>,
     color_mode |-> <<"lvxy", "lvudvd", "lvtcpduv", "xyz", "lvdwpe", "lv">>,
     color_mode_display |-> <<"lvxy", "lvudvd", "lvtcpduv", "xyz", "lvdwpe", "lv">>,
     data_save_mode |-> <<"auto", "manual">>,
     periodic_calibration_notify |-> <<"False", "True">>,
     toggle |-> <<"False", "True">>,
     trigger |-> <<"False", "True">>,
     luminance_unit |-> <<"cdm2", "fl">>]

Settings == DOMAIN KeyTable

\* How each setter decides that its argument is acceptable:
\*   "member"  the key is looked up in the table (in / if-elif-else raise ValueError)
\*   "truthy"  table.get(key) and then "if not value: raise ValueError"
\*   "range"   1 <= level <= 5
\*   "list"    digit_number in [3, 4]
\*   "none"    a bool parameter, turned into On/Off with a conditional expression
CheckTable ==
    [measurement_time |-> "member",
     sync_mode |-> "none",
     peak_valley |-> "member",
     close_up_lens |-> "member",
     ccf |-> "member",
     auto_power_off |-> "none",
     backlight |-> "none",
     backlight_level |-> "range",
     color_display_digits |-> "list",
     display_type |-> "truthy",
     display_language |-> "truthy",
     date_format |-> "truthy",
     color_mode |-> "member",
     color_mode_display |-> "truthy",
     data_save_mode |-> "truthy",
     periodic_calibration_notify |-> "none",
     toggle |-> "none",
     trigger |-> "none",
     luminance_unit |-> "truthy"]

\* What each getter returns for a vendor code that matches none of its comparisons
FallbackTable ==
    [measurement_time |-> "manual",
     sync_mode |-> "False",
     peak_valley |-> "valley",
     close_up_lens |-> "unknown",
     ccf |-> "unknown",
     auto_power_off |-> "False",
     backlight |-> "False",
     backlight_level |-> "1",
     color_display_digits |-> "int",
     display_type |-> "unknown",
     display_language |-> "unknown",
     date_format |-> "unknown",
     color_mode |-> "unknown",
     color_mode_display |-> "False",
     data_save_mode |-> "unknown",
     periodic_calibration_notify |-> "False",
     toggle |-> "False",
     trigger |-> "False",
     luminance_unit |-> "unknown"]

\* The settings whose setter and getter hand their com_port to the vendor call
PortTable ==
    [measurement_time |-> FALSE,
     sync_mode |-> FALSE,
     peak_valley |-> FALSE,
     close_up_lens |-> FALSE,
     ccf |-> TRUE,
     auto_power_off |-> TRUE,
     backlight |-> FALSE,
     backlight_level |-> FALSE,
     color_display_digits |-> TRUE,
     display_type |-> TRUE,
     display_language |-> TRUE,
     date_format |-> TRUE,
     color_mode |-> FALSE,
     color_mode_display |-> TRUE,
     data_save_mode |-> TRUE,
     periodic_calibration_notify |-> TRUE,
     toggle |-> TRUE,
     trigger |-> TRUE,
     luminance_unit |-> TRUE]

\* The getters that test the length of the result as well as its type
LenTable ==
    [measurement_time |-> FALSE,
     sync_mode |-> FALSE,
     peak_valley |-> FALSE,
     close_up_lens |-> FALSE,
     ccf |-> TRUE,
     auto_power_off |-> TRUE,
     backlight |-> FALSE,
     backlight_level |-> FALSE,
     color_display_digits |-> TRUE,
     display_type |-> TRUE,
     display_language |-> TRUE,
     date_format |-> TRUE,
     color_mode |-> FALSE,
     color_mode_display |-> TRUE,
     data_save_mode |-> TRUE,
     periodic_calibration_notify |-> TRUE,
     toggle |-> TRUE,
     trigger |-> TRUE,
     luminance_unit |-> TRUE]

KeySet(X) == {KeyTable[X][n] : n \in 1..Len(KeyTable[X])}
IndexOf(X, k) == CHOOSE n \in 1..Len(KeyTable[X]) : KeyTable[X][n] = k

\* the vendor code of key k of setting X: the members of a vendor enum are numbered
\* from enumBase in the order of the table
EnumCode(X, k) == enumBase + IndexOf(X, k) - 1

\* the vendor codes an instrument may hold for a setting range over 0..MaxVendorCode
MaxVendorCode == 7
VendorCodes == 0..MaxVendorCode

\* Python's truth value of an enum member handed over by the bridge: an int is false
\* when it is 0, an object is always true
Truthy(c) == IF enumAsInt THEN c # 0 ELSE TRUE

\* str.lower() on the spellings the model passes in
Lower(k) ==
    CASE k = "AUTO" -> "auto"
      [] k = "Peak" -> "peak"
      [] k = "STANDARD" -> "standard"
      [] k = "ON" -> "on"
      [] k = "Ratio" -> "ratio"
      [] k = "ENGLISH" -> "english"
      [] k = "YMD" -> "ymd"
      [] k = "XYZ" -> "xyz"
      [] k = "FL" -> "fl"
      [] OTHER -> k

\* spellings in another case, and strings that name no key of any table
OtherCase == {"AUTO", "Peak", "STANDARD", "ON", "Ratio", "ENGLISH", "YMD", "XYZ", "FL"}
NoKey == {"bogus", ""}

\* the arguments the model passes to the setter of X
Inputs(X) ==
    CASE CheckTable[X] = "none" -> KeySet(X)
      [] CheckTable[X] \in {"range", "list"} -> KeySet(X) \cup {"0", "6"}
      [] OTHER -> KeySet(X) \cup {k \in OtherCase : Lower(k) \in KeySet(X)} \cup NoKey

\* the bounds of set_backlight_level's range test
MinLevel == 1
MaxLevel == 5

\* the number a decimal spelling stands for
NumberOf(k) == CHOOSE n \in 0..(MaxLevel + 1) : ToString(n) = k

\* the digit counts set_color_display_digits lists
DigitChoices == {NumberOf("3"), NumberOf("4")}

\* the value the setter of X hands to the vendor for key k: a member of a vendor
\* enum, or the number itself for the display digits
Code(X, k) == IF CheckTable[X] = "list" THEN NumberOf(k) ELSE EnumCode(X, k)
EnumCodes(X) == {Code(X, k) : k \in KeySet(X)}
KeyOfCode(X, c) == CHOOSE k \in KeySet(X) : Code(X, k) = c

\* the key a setter looks up for its argument
Normal(X, in) == IF CheckTable[X] \in {"none", "range", "list"} THEN in ELSE Lower(in)

\* Is the argument one of the keys the table of X lists (in whatever case)?
Listed(X, in) == Normal(X, in) \in KeySet(X)

\* fault model: a setter without its validation
AcceptsAnything(X, in) == TRUE

\* Does the setter of X accept the argument (no ValueError)?
Accepts(X, in) ==
    CASE CheckTable[X] = "member" -> Lower(in) \in KeySet(X)
      [] CheckTable[X] = "truthy" -> Lower(in) \in KeySet(X) /\ Truthy(Code(X, Lower(in)))
      [] CheckTable[X] = "range" -> MinLevel <= NumberOf(in) /\ NumberOf(in) <= MaxLevel
      [] CheckTable[X] = "list" -> NumberOf(in) \in DigitChoices
      [] CheckTable[X] = "none" -> TRUE

\* What the getter of X returns for vendor code c
Translate(X, c) ==
    IF FallbackTable[X] = "int" THEN ToString(c)
    ELSE IF c \in EnumCodes(X) THEN KeyOfCode(X, c)
    ELSE FallbackTable[X]

\* the outcome of a getter of X answered with (shape, c, value)
GetterOutcome(X, shape, c, v) ==
    IF shape # "tuple" THEN Raised(Unpack(shape, LenTable[X]), NoCode)
    ELSE IF CheckErrorRaises(c) THEN Raised("RuntimeError", c)
    ELSE Returned(Translate(X, v))

\* set_X(in, com_port=p)
Set(X, in, p) ==
    /\ Idle /\ setting = X
    /\ IF ~Accepts(X, in)
          THEN /\ res' = Raised("ValueError", NoCode)
               /\ log' = <<>>
               /\ UNCHANGED <<stored, lastSet>>
          ELSE IF ~Listed(X, in)
          THEN \* table[key] on a key the table lacks
               /\ res' = Raised("KeyError", NoCode)
               /\ log' = <<>>
               /\ UNCHANGED <<stored, lastSet>>
          ELSE \E c \in Codes :
               /\ log' = <<VendorCall("Set", PortUsed(PortTable[X], p), c, Normal(X, in))>>
               /\ res' = CheckedReturn(c, "None")
               /\ stored' = IF c = KmSuccess THEN Code(X, Normal(X, in)) ELSE stored
               /\ lastSet' = IF c = KmSuccess THEN Normal(X, in) ELSE lastSet
    /\ op' = BeginArg("set", 1, p, in)
    /\ polls' = 0
    /\ UNCHANGED <<lifeVars, meas, setting, enumBase, enumAsInt, samples>>

\* get_X(com_port=p): the vendor reports the code the instrument holds
Get(X, p) ==
    /\ Idle /\ setting = X
    /\ \E shape \in Shapes, c \in Codes :
          /\ (shape # "tuple" => c = KmSuccess)
          /\ log' = <<VendorCall("Get", PortUsed(PortTable[X], p),
                                 IF shape = "tuple" THEN c ELSE NoCode,
                                 IF shape = "tuple" THEN ToString(stored) ELSE ShapeNote(shape))>>
          /\ res' = GetterOutcome(X, shape, c, stored)
    /\ op' = Begin("get", 1, p, FALSE, "done")
    /\ polls' = 0
    /\ UNCHANGED <<lifeVars, meas, settingVars, samples>>

\* the vendor code of a bool parameter: "On if enable else Off"
FlagCode(enable) == IF enable THEN enumBase + 1 ELSE enumBase
FlagName(c) == IF c = FlagCode(TRUE) THEN "True" ELSE "False"

\* set_color_mode_display(mode, enable, com_port): the mode is looked up like a key of
\* set_color_mode, the instrument then holds the on/off code of that mode
SetColorModeDisplay(in, enable, p) ==
    /\ Idle /\ setting = "color_mode_display"
    /\ IF ~Accepts(setting, in)
          THEN /\ res' = Raised("ValueError", NoCode)
               /\ log' = <<>>
               /\ UNCHANGED <<stored, lastSet>>
          ELSE IF ~Listed(setting, in)
          THEN \* the vendor call is handed None for the mode
               /\ res' = Raised("TypeError", NoCode)
               /\ log' = <<>>
               /\ UNCHANGED <<stored, lastSet>>
          ELSE \E c \in Codes :
               /\ log' = <<VendorCall("Set", p, c, Lower(in))>>
               /\ res' = CheckedReturn(c, "None")
               /\ stored' = IF c = KmSuccess THEN FlagCode(enable) ELSE stored
               /\ lastSet' = IF c = KmSuccess THEN FlagName(FlagCode(enable)) ELSE lastSet
    /\ op' = BeginArg("set", 1, p, in)
    /\ polls' = 0
    /\ UNCHANGED <<lifeVars, meas, setting, enumBase, enumAsInt, samples>>

\* get_color_mode_display(mode, com_port)
GetColorModeDisplay(in, p) ==
    /\ Idle /\ setting = "color_mode_display"
    /\ IF ~Accepts(setting, in)
          THEN /\ res' = Raised("ValueError", NoCode)
               /\ log' = <<>>
          ELSE IF ~Listed(setting, in)
          THEN /\ res' = Raised("TypeError", NoCode)
               /\ log' = <<>>
          ELSE \E shape \in Shapes, c \in Codes :
               /\ (shape # "tuple" => c = KmSuccess)
               /\ log' = <<VendorCall("Get", p, IF shape = "tuple" THEN c ELSE NoCode,
                                      IF shape = "tuple" THEN ToString(stored) ELSE ShapeNote(shape))>>
               /\ res' = IF shape # "tuple"
                             THEN Raised(Unpack(shape, LenTable[setting]), NoCode)
                          ELSE CheckedReturn(c, FlagName(stored))
    /\ op' = BeginArg("get", 1, p, in)
    /\ polls' = 0
    /\ UNCHANGED <<lifeVars, meas, settingVars, samples>>

\* The setting is changed on the instrument itself (its keys, another program, a
\* firmware with more members): any vendor code may end up stored.
PanelChange(c) ==
    /\ Idle
    /\ c # stored
    /\ stored' = c
    /\ lastSet' = "none"
    /\ UNCHANGED <<lifeVars, meas, op, res, log, polls, setting, enumBase, enumAsInt, samples>>

\* a constructed facade, connected on the default port, about to exercise one setting
SettingsInit ==
    /\ cwd = "sdk_bin"
    /\ obj = [i \in Instances |->
                 IF i = 1 THEN [exists |-> TRUE, sdk |-> TRUE,
                                original_cwd |-> "start", scoped |-> FALSE]
                 ELSE NoObject]
    /\ conn = [p \in Ports |-> IF p = DefaultPort THEN 1 ELSE 0]
    /\ exitRec = NoExit
    /\ closed = {}
    /\ samples = 0
    /\ CallInit
    /\ setting \in Settings
    /\ enumBase \in {0, 1}
    /\ enumAsInt \in BOOLEAN
    /\ stored = Code(setting, KeyTable[setting][1])
    /\ lastSet = "none"

\* the settings with one setter argument and a getter without one
Plain == Settings \ {"color_mode_display"}

SettingsNext ==
    \/ \E X \in Plain, p \in Ports : \E in \in Inputs(X) : Set(X, in, p)
    \/ \E X \in Plain, p \in Ports : Get(X, p)
    \/ \E in \in Inputs("color_mode_display"), enable \in BOOLEAN, p \in Ports :
          SetColorModeDisplay(in, enable, p)
    \/ \E in \in Inputs("color_mode_display"), p \in Ports : GetColorModeDisplay(in, p)
    \/ \E c \in VendorCodes : PanelChange(c)

SettingsSpec == SettingsInit /\ [][SettingsNext]_vars

----------------------------------------------------------------------------
(* The specification of the stored samples and the displayed value *)

\* no setting is exercised
SettingsIdle ==
    /\ setting = "none"
    /\ stored = 0
    /\ lastSet = "none"
    /\ enumBase = 0
    /\ enumAsInt = FALSE

\* a constructed facade, connected on the default port, the store holding any count
DataInit ==
    /\ cwd = "sdk_bin"
    /\ obj = [i \in Instances |->
                 IF i = 1 THEN [exists |-> TRUE, sdk |-> TRUE,
                                original_cwd |-> "start", scoped |-> FALSE]
                 ELSE NoObject]
    /\ conn = [p \in Ports |-> IF p = DefaultPort THEN 1 ELSE 0]
    /\ exitRec = NoExit
    /\ closed = {}
    /\ CallInit
    /\ SettingsIdle
    /\ samples \in 0..MaxSamples

DataNext ==
    \/ \E d \in DataNumbers, p \in Ports : ReadSampleData(1, d, p)
    \/ \E d \in DataNumbers \cup {DeleteAll}, p \in Ports : DeleteSampleData(1, d, p)
    \/ \E name \in DisplayQueries \cup {"get_number_of_samples"}, p \in Ports :
          Query(1, name, p)
    \/ \E p \in Ports : GetLuminance(1, p)

DataSpec == DataInit /\ [][DataNext]_vars

----------------------------------------------------------------------------
(* The error translator: _check_error and error_map *)

\* error_map, lines 119-137
ErrorMap ==
    (0 :> "The processing was completed normally (KmSuccess)") @@
    (10 :> "No instrument is connected to the specified virtual COM port (ErNoConnect)") @@
    (25 :> "The assigned parameter is incorrect (ErInvalidParameter)") @@
    (30 :> "This model does not support the specified command (ErCannotCommand)") @@
    (45 :> "No specified data (ErNoData)") @@
    (50 :> "Calculation result is out of the support range of chromaticity or luminance (ErOutOfRangeValue)") @@
    (60 :> "The instrument cannot receive any commands because it is in the middle of a process (ErInstrumentProcessing)") @@
    (100 :> "Failed to connect to the instrument (ErConnectFailed)") @@
    (110 :> "There are one or more ports that cannot be disconnected (ErDisConnectFailed)") @@
    (120 :> "Failed to set the setting (ErSetFailed)") @@
    (130 :> "Failed to obtain the setting (ErGetFailed)") @@
    (140 :> "Calculation failed (ErCalcFailed)") @@
    (150 :> "Cancellation failed (ErCancelFailed)") @@
    (160 :> "Write failed (ErWriteFailed)") @@
    (170 :> "Read failed (ErReadFailed)") @@
    (180 :> "Failed to delete the setting(s) (ErDeleteFailed)") @@
    (200 :> "Measurement failed (ErMeasurementFailed)")

\* the codes a vendor result is checked with: the listed ones and one that is not
EnvelopeCodes == DOMAIN ErrorMap \cup {UnlistedCode}

\* the errorMessage of a vendor result: attribute missing, empty, one or two messages
Details ==
    {[has |-> FALSE, msgs |-> <<>>],
     [has |-> TRUE, msgs |-> <<>>],
     [has |-> TRUE, msgs |-> <<"timeout">>],
     [has |-> TRUE, msgs |-> <<"timeout", "retry">>]}

\* the operation names handed to _check_error
OperationNames == {"Connect", "Measure", "ReadDisplayValue"}

\* ', '.join(msgs)
RECURSIVE Join(_)
Join(msgs) ==
    IF msgs = <<>> THEN ""
    ELSE IF Len(msgs) = 1 THEN msgs[1]
    ELSE msgs[1] \o ", " \o Join(Tail(msgs))

\* line 144: self.error_map.get(error_code, "Unknown error code")
BaseMessage(c) == IF c \in DOMAIN ErrorMap THEN ErrorMap[c] ELSE "Unknown error code"

\* line 145: the joined messages, '' when the attribute is missing or empty
SdkMessages(detail) == IF detail.has /\ detail.msgs # <<>> THEN Join(detail.msgs) ELSE ""

\* fault model: the details suffix appended whether or not there are details
FullMessageAlwaysDetails(base, sdk) == base \o ". SDK Details: " \o sdk

\* lines 147-150
FullMessage(base, sdk) == IF sdk # "" THEN base \o ". SDK Details: " \o sdk ELSE base

\* line 152: RuntimeError(f"{operation} failed with error {error_code}: {full_message}")
ErrorRaised(operation, c, detail) ==
    [kind |-> "RuntimeError", code |-> c, val |-> "-", operation |-> operation,
     text |-> operation \o " failed with error " \o ToString(c) \o ": "
              \o FullMessage(BaseMessage(c), SdkMessages(detail))]

\* a vendor result envelope handed to _check_error
Envelope(operation, c, detail) ==
    [kind |-> "call", fn |-> operation, port |-> DefaultPort, n |-> c, st |-> "-",
     detail |-> detail]

\* _check_error(ret, operation)
CheckError(operation, c, detail) ==
    /\ Idle
    /\ log' = <<Envelope(operation, c, detail)>>
    /\ res' = IF CheckErrorRaises(c) THEN ErrorRaised(operation, c, detail)
              ELSE Returned("None")
    /\ op' = BeginArg("_check_error", 1, DefaultPort, operation)
    /\ polls' = 0
    /\ UNCHANGED <<lifeVars, meas, settingVars, samples>>

ErrorInit == DataInit /\ samples = MaxSamples

ErrorNext ==
    \E operation \in OperationNames, c \in EnvelopeCodes, detail \in Details :
       CheckError(operation, c, detail)

ErrorSpec == ErrorInit /\ [][ErrorNext]_vars

----------------------------------------------------------------------------
(* The specification of the facade's life cycle and measurement *)

Init == LifeInit /\ CallInit /\ SettingsIdle /\ StoreInit

\* the facade instance whose calls Spec follows
Self == {1}

\* construction, connection and scoped use of the instances in I
Lifecycle(I) ==
    \/ \E i \in I : ConstructNoFolder(i)
    \/ \E i \in I : ConstructInitFails(i)
    \/ \E i \in I : Construct(i)
    \/ \E i \in I, p \in Ports : Connect(i, p)
    \/ \E i \in I, q \in Ports : Disconnect(i, q)
    \/ \E i \in I : EnterScope(i)
    \/ \E i \in I, exc \in {"none", "RuntimeError"} : ExitScope(i, exc)

Operations(I) ==
    \/ \E i \in I, p \in Ports, w \in BOOLEAN : Measure(i, p, w)
    \/ \E i \in I, p \in Ports : WaitForIdle(i, p)
    \/ Poll
    \/ PollSleep
    \/ Settle
    \/ \E s \in Statuses : InstrumentChange(s)
    \/ \E i \in I, p \in Ports : PollingMeasurement(i, p)
    \/ \E i \in I, d \in DataNumbers, p \in Ports : ReadSampleData(i, d, p)
    \/ \E i \in I, name \in Commands, p \in Ports : Command(i, name, p)
    \/ \E i \in I, name \in Queries, p \in Ports : Query(i, name, p)

Next == Lifecycle(Self) \/ Operations(Self)

\* one facade: its life cycle and every operation on it
Spec == Init /\ [][Next]_vars

LifeNext == Lifecycle(Instances)

\* several facades in one process: their life cycles interleaved
LifeSpec == Init /\ [][LifeNext]_vars

----------------------------------------------------------------------------
(* The specification of a measurement that is run to its end *)

WaitInit == DataInit /\ samples = MaxSamples

WaitNext ==
    \/ \E p \in Ports, w \in BOOLEAN : Measure(1, p, w)
    \/ \E p \in Ports : WaitForIdle(1, p)
    \/ Poll
    \/ PollSleep
    \/ Settle
    \/ \E s \in Statuses : InstrumentChange(s)

\* The thread that runs the call keeps running: a poll that is due is made, a sleep
\* ends, the settle delay ends.  Nothing is assumed of the instrument or the caller.
WaitFairness == WF_vars(Poll) /\ WF_vars(PollSleep) /\ WF_vars(Settle)

WaitSpec == WaitInit /\ [][WaitNext]_vars /\ WaitFairness

----------------------------------------------------------------------------
(* The specification of a session: connect, disconnect and the operations made *)
(* with or without an open connection                                          *)

\* the settings a session exercises: one whose vendor calls take no port, one whose
\* vendor calls take it
SessionSettings == {"peak_valley", "display_type"}

\* a constructed facade that exercises setting X through connections to the
\* instances in cs (none: no connection made so far)
FacadeInit(Xs, cs) ==
    /\ cwd = "sdk_bin"
    /\ obj = [i \in Instances |->
                 IF i = 1 THEN [exists |-> TRUE, sdk |-> TRUE,
                                original_cwd |-> "start", scoped |-> FALSE]
                 ELSE NoObject]
    /\ conn \in [Ports -> cs]
    /\ exitRec = NoExit
    /\ closed = {}
    /\ samples = MaxSamples
    /\ CallInit
    /\ setting \in Xs
    /\ enumBase = 0
    /\ enumAsInt = FALSE
    /\ stored = Code(setting, KeyTable[setting][1])
    /\ lastSet = "none"

SessionInit == FacadeInit(SessionSettings, {0})

\* the operations on the facade that take a com_port, over the settings Xs
PortOperations(Xs) ==
    \/ \E p \in Ports, w \in BOOLEAN : Measure(1, p, w)
    \/ Poll
    \/ PollSleep
    \/ Settle
    \/ \E p \in Ports : GetLuminance(1, p)
    \/ \E p \in Ports : Query(1, "get_color", p)
    \/ \E X \in Xs, p \in Ports : \E in \in Inputs(X) : Set(X, in, p)
    \/ \E X \in Xs, p \in Ports : Get(X, p)

SessionNext ==
    \/ \E p \in Ports : Connect(1, p)
    \/ \E q \in Ports : Disconnect(1, q)
    \/ PortOperations(SessionSettings)

SessionSpec == SessionInit /\ [][SessionNext]_vars

----------------------------------------------------------------------------
(* The specification of a facade connected to an instrument on every port *)

\* the settings whose setters C23 names
PortSettings == {"measurement_time", "peak_valley", "backlight_level", "color_mode"}

PortInit == FacadeInit(PortSettings, {1})

PortNext == PortOperations(PortSettings)

PortSpec == PortInit /\ [][PortNext]_vars

----------------------------------------------------------------------------
(* Properties *)

CallIdx == {k \in 1..Len(log) : log[k].kind = "call"}
PollIdx == {k \in CallIdx : log[k].fn = "PollingMeasurement"}
HasCall == CallIdx # {}
LastCallIdx == CHOOSE k \in CallIdx : \A j \in CallIdx : j <= k
LastCall == log[LastCallIdx]
Failed(e) == e.kind = "call" /\ e.n # KmSuccess /\ e.n # NoCode
Teardown == {"disconnect", "__exit__"}
Finished == op.pc = "done" /\ op.name # "none"

\* the setters C1 names
C1Setters ==
    {"measurement_time", "peak_valley", "close_up_lens", "backlight_level",
     "color_display_digits", "display_type", "display_language", "date_format",
     "color_mode", "color_mode_display", "data_save_mode", "luminance_unit", "ccf"}

\* C1: a mode setter called with a key or level outside its enumerated set raises
\* ValueError, makes no vendor call, and leaves what the instrument holds unchanged.
C1_InvalidKeyRejected ==
    [][(/\ op'.name = "set"
        /\ setting \in C1Setters
        /\ ~Listed(setting, op'.arg)
        /\ <<op, res, log>>' # <<op, res, log>>)
       => (/\ res'.kind = "ValueError"
           /\ log' = <<>>
           /\ stored' = stored
           /\ lastSet' = lastSet)]_vars

C1_Witness ==
    /\ op.name = "set"
    /\ setting \in C1Setters
    /\ ~Listed(setting, op.arg)
    /\ res.kind = "ValueError"
    /\ log = <<>>
    /\ lastSet # "none"

\* the settings C2 names
C2Settings ==
    {"measurement_time", "sync_mode", "peak_valley", "close_up_lens", "auto_power_off",
     "backlight", "backlight_level", "display_type", "display_language", "date_format",
     "color_mode", "data_save_mode", "toggle", "trigger", "luminance_unit"}

\* C2: round trip: for every value v of the enumerated set of a setting X, set_X(v) is
\* carried out (it is not refused as an invalid argument), and a get_X() that follows
\* it on an instrument that kept the value returns v.
C2_RoundTrip ==
    /\ (op.name = "set" /\ setting \in C2Settings /\ op.arg \in KeySet(setting))
          => res.kind # "ValueError"
    /\ (op.name = "get" /\ setting \in C2Settings /\ res.kind = "ok" /\ lastSet # "none")
          => res.val = lastSet

\* the getters C3 names
C3Getters ==
    {"measurement_time", "peak_valley", "close_up_lens", "backlight_level",
     "display_type", "display_language", "date_format", "color_mode",
     "data_save_mode", "luminance_unit", "ccf"}

\* the vendor reported a code that is no member of the setting's enumeration
Unrecognised == log[1].st \notin {ToString(c) : c \in EnumCodes(setting)}

\* C3: a getter whose vendor call succeeds with a code outside the enumerated set
\* returns "unknown": it does not raise and does not name a valid variant.
C3_UnknownSentinel ==
    (/\ op.name = "get"
     /\ setting \in C3Getters
     /\ Len(log) = 1
     /\ log[1].n = KmSuccess
     /\ Unrecognised)
    => res = Returned("unknown")

\* C4: every operation other than disconnect ends in a return or in one exception; it
\* raises RuntimeError carrying the code of its last vendor result when that code is
\* not KmSuccess, and no RuntimeError when it is KmSuccess.
C4_FailsLoudly ==
    /\ Finished <=> res.kind # "none"
    /\ (Finished /\ op.name \notin Teardown /\ HasCall /\ LastCall.n # NoCode)
          => IF LastCall.n # KmSuccess
                THEN res = Raised("RuntimeError", LastCall.n)
                ELSE res.kind # "RuntimeError"

C4_Witness ==
    /\ Finished
    /\ op.name = "get_number_of_samples"
    /\ LastCall.n = UnlistedCode
    /\ res = Raised("RuntimeError", UnlistedCode)

\* C5: measure(wait=True) returns normally only after the Measure call succeeded and a
\* later poll reported a status other than Measuring, with the settle delay between
\* that poll and the return.
C5_MeasureWaits ==
    (Finished /\ op.name = "measure" /\ op.wait /\ res.kind = "ok")
    => /\ Len(log) >= 3
       /\ log[1] = VendorCall("Measure", op.port, KmSuccess, "-")
       /\ log[Len(log)] = SleepEv(SettleMs)
       /\ log[Len(log) - 1].fn = "PollingMeasurement"
       /\ log[Len(log) - 1].n = KmSuccess
       /\ log[Len(log) - 1].st \in Statuses \ {"Measuring"}
       /\ \A k \in 1..(Len(log) - 1) : log[k] # SleepEv(SettleMs)

C5_Witness ==
    /\ Finished /\ op.name = "measure" /\ op.wait /\ res.kind = "ok"
    /\ polls >= 2
    /\ log[Len(log) - 1].st = "Idling"

\* the calls that run the poll loop
Waiting == op.name = "wait_for_idle" \/ (op.name = "measure" /\ op.wait)

\* C6: the poll loop has no timeout: as long as every poll succeeds and reports
\* Measuring, the call neither returns nor raises, however many polls it has issued.
C6_NoTimeout ==
    (/\ Waiting
     /\ \A k \in CallIdx : log[k].n = KmSuccess
     /\ \A k \in PollIdx : log[k].st = "Measuring")
    => op.pc \in {"poll", "sleep"}

C6_Witness ==
    /\ Waiting
    /\ op.name = "measure"
    /\ polls = MaxPolls
    /\ Len(log) = MaxLog
    /\ \A k \in PollIdx : log[k].n = KmSuccess /\ log[k].st = "Measuring"
    /\ op.pc = "poll"

\* C7: after disconnect() the process working directory is the one recorded when the
\* facade was constructed, whatever happened between construction and disconnect.
C7_DisconnectRestoresCwd ==
    (Finished /\ op.name = "disconnect") => cwd = obj[op.inst].original_cwd

C7_Witness ==
    /\ Finished /\ op.name = "disconnect"
    /\ cwd = "start"
    /\ \A p \in Ports : conn[p] = 0
    /\ log[1].n = KmSuccess

\* C8: disconnect() does not fail because of the vendor layer: when DisConnect throws
\* or answers a non-success code, disconnect still returns normally, with the working
\* directory restored.
C8_DisconnectSwallows ==
    (/\ Finished /\ op.name = "disconnect"
     /\ Len(log) = 1
     /\ (log[1].st = "throws" \/ log[1].n # KmSuccess))
    => (res = Returned("None") /\ cwd = obj[op.inst].original_cwd)

C8_Witness ==
    /\ Finished /\ op.name = "disconnect"
    /\ Len(log) = 1 /\ log[1].st = "throws"
    /\ res = Returned("None")
    /\ conn[op.port] # 0

\* C9: leaving a with block, normally or by an exception, runs disconnect() exactly
\* once, restores the working directory, and lets the exception through.
C9_ScopedUse ==
    (Finished /\ op.name = "__exit__")
    => /\ exitRec.inst = op.inst
       /\ exitRec.disc = 1
       /\ Cardinality({k \in CallIdx : log[k].fn = "DisConnect"}) = 1
       /\ cwd = obj[op.inst].original_cwd
       /\ (exitRec.exc # "none" => exitRec.propagated /\ res.kind = exitRec.exc)
       /\ (exitRec.exc = "none" => res = Returned("None"))

C9_Witness ==
    /\ Finished /\ op.name = "__exit__"
    /\ exitRec.exc = "RuntimeError"
    /\ exitRec.propagated
    /\ res.kind = "RuntimeError" /\ res.code = ErNoData

C12_DeleteAll ==
    (Finished /\ op.name = "delete_sample_data" /\ op.arg = ToString(DeleteAll))
    => /\ Len(log) = 1
       /\ log[1] = SampleCall("DeleteSampleData", op.port, log[1].n, "-", DeleteAll)
       /\ res = IF log[1].n # KmSuccess
                   THEN Raised("RuntimeError", log[1].n) ELSE Returned("None")
       /\ (log[1].n = KmSuccess => samples = 0)

C12_Witness ==
    /\ Finished /\ op.name = "delete_sample_data" /\ op.arg = ToString(DeleteAll)
    /\ Len(log) = 1 /\ log[1].number = DeleteAll /\ log[1].port = MaxPort
    /\ res = Returned("None")
    /\ samples = 0

\* the display data a finished get_luminance() was handed
Shown == log[1].data
LuminanceRead ==
    /\ Finished /\ op.name = "get_luminance"
    /\ conn[DefaultPort] = op.inst
    /\ Len(log) = 1 /\ log[1].n = KmSuccess

\* C13 as claimed: connected on port 0, get_luminance() returns a positive value when
\* the display reports Lv or Y: the value of Lv when present, otherwise that of Y; it
\* raises ValueError only when neither is reported.
C13_LuminancePositive ==
    LuminanceRead
    => /\ "Lv" \in Shown.chans => (res = Returned(ToString(Shown.Lv)) /\ Shown.Lv > 0)
       /\ ("Lv" \notin Shown.chans /\ "Y" \in Shown.chans)
             => (res = Returned(ToString(Shown.Y)) /\ Shown.Y > 0)
       /\ res.kind = "ValueError" <=> Shown.chans \cap {"Lv", "Y"} = {}

\* C13 as amended: get_luminance() returns the displayed value of Lv when Lv is
\* reported, otherwise that of Y, whatever that value is; it raises ValueError exactly
\* when neither is reported.
C13_LuminanceChannel ==
    LuminanceRead
    => /\ "Lv" \in Shown.chans => res = Returned(ToString(Shown.Lv))
       /\ ("Lv" \notin Shown.chans /\ "Y" \in Shown.chans)
             => res = Returned(ToString(Shown.Y))
       /\ res.kind = "ValueError" <=> Shown.chans \cap {"Lv", "Y"} = {}

C13_Witness ==
    /\ LuminanceRead
    /\ Shown.chans = {"Lv", "Y"}
    /\ Shown.Lv = 0 /\ Shown.Y = MaxReading
    /\ res = Returned(ToString(0))

\* the ports open through instance i
OpenPorts(i) == {p \in Ports : conn[p] = i}

\* C14: a facade instance owns at most one open connection, whatever connect(p) and
\* disconnect(q) calls were made on it.
C14_AtMostOneConnection ==
    \A i \in Instances : Cardinality(OpenPorts(i)) <= 1

\* C16: after disconnect() has returned, the facade holds no usable SDK handle.
C16_HandleReleased ==
    (Finished /\ op.name = "disconnect") => ~obj[op.inst].sdk

\* the polls of a wait_for_idle call whose log is complete
IsPoll(e) == e.kind = "call" /\ e.fn = "PollingMeasurement"
EndsWait(e) == IsPoll(e) /\ e.n = KmSuccess /\ e.st \in Statuses \ {"Measuring"}

\* C17: wait_for_idle ends at the first poll that reports a status other than
\* Measuring (Idling or an unrecognised one): when that is the k-th poll exactly k
\* polls are issued, each earlier one reported Measuring and was followed by one
\* poll-interval sleep, and no sleep follows the last poll.
C17_FirstNonMeasuringEnds ==
    (op.name = "wait_for_idle" /\ Len(log) < MaxLog)
    => /\ \A k \in 1..Len(log) :
             IF k % 2 = 1 THEN IsPoll(log[k]) /\ log[k].port = op.port
             ELSE log[k] = SleepEv(PollIntervalMs)
       /\ \A k \in 1..(Len(log) - 1) :
             k % 2 = 1 => (log[k].n = KmSuccess /\ log[k].st = "Measuring")
       /\ polls = Cardinality(PollIdx)
       /\ (Len(log) > 0 /\ EndsWait(log[Len(log)]))
             <=> (Finished /\ res = Returned("None"))

C17_Witness ==
    /\ Finished /\ op.name = "wait_for_idle" /\ res = Returned("None")
    /\ Len(log) = 3 /\ polls = 2
    /\ log[1].st = "Measuring"
    /\ log[3].st = "Other"

\* C19: when measure(wait=True) returns normally the instrument is not Measuring,
\* however its own state changes interleave with the polls and the settle delay.
C19_IdleAtReturn ==
    (Finished /\ op.name = "measure" /\ op.wait /\ res.kind = "ok")
    => meas # "Measuring"

\* the instances constructed so far
Constructed == {i \in Instances : obj[i].exists}

\* C20: once every constructed instance has been disconnected, the working directory
\* is the one that held before the first instance was constructed.
C20_AllDisconnectedRestores ==
    (Constructed # {} /\ closed = Constructed) => cwd = "start"

\* the messages the vendor supplied with the result a finished _check_error was handed
Supplied == IF log[1].detail.has THEN log[1].detail.msgs ELSE <<>>

\* C15: for a vendor result with non-success code c the failure raised names the
\* operation and c; its description is the table text of c, or "Unknown error code"
\* when the table lacks c, followed by the vendor's detail messages exactly when the
\* vendor supplied at least one.  A result with code 0 raises nothing.
C15_ErrorDescription ==
    (Finished /\ op.name = "_check_error")
    => IF log[1].n = KmSuccess THEN res = Returned("None")
       ELSE LET c == log[1].n
                described == IF c \in DOMAIN ErrorMap THEN ErrorMap[c]
                             ELSE "Unknown error code"
                lead == op.arg \o " failed with error " \o ToString(c) \o ": "
            IN /\ res.kind = "RuntimeError"
               /\ res.operation = op.arg
               /\ res.code = c
               /\ Supplied = <<>> => res.text = lead \o described
               /\ Supplied # <<>>
                     => res.text = lead \o described \o ". SDK Details: " \o Join(Supplied)

C15_Witness ==
    /\ Finished /\ op.name = "_check_error"
    /\ log[1].n = UnlistedCode
    /\ Len(Supplied) = 2
    /\ res.text = "Measure failed with error 201: Unknown error code. SDK Details: timeout, retry"

\* a poll of the call in flight (or the last one) failed: error code or no tuple
PollFailed ==
    /\ Finished /\ res.kind # "ok"
    /\ Len(log) > 0 /\ IsPoll(log[Len(log)])

\* C18: if every poll succeeds and from some point on the instrument reports a status
\* other than Measuring, a wait_for_idle call, and a measure(wait=True) call whose
\* Measure command succeeded, eventually returns.
C18_WaitReturns ==
    (<>[](meas # "Measuring") /\ []~PollFailed)
    => ((op.pc # "done") ~> (op.pc = "done" /\ res = Returned("None")))

C18_Witness ==
    /\ Finished /\ op.name = "measure" /\ op.wait
    /\ res = Returned("None")
    /\ polls = MaxPolls
    /\ meas = "Other"

\* C21: read_sample_data(n) reads sample n as XYZ first; it reads a second time, as
\* Lvxy, exactly when the first read answered ErNoData; it returns the XYZ mapping
\* when the first read succeeds, the Lvxy mapping when the second succeeds, and in
\* every other case raises RuntimeError with the code of the last read made.  It
\* never returns None.
C21_TwoStepRead ==
    (Finished /\ op.name = "read_sample_data")
    => /\ Len(log) \in {1, 2}
       /\ \A k \in 1..Len(log) : log[k].kind = "call" /\ log[k].fn = "ReadSampleData"
       /\ log[1].st = "XYZ"
       /\ Len(log) = 2 <=> log[1].n = ErNoData
       /\ Len(log) = 2 => (log[2].st = "Lvxy" /\ log[2].number = log[1].number)
       /\ res = IF log[1].n = KmSuccess THEN Returned("XYZ")
                ELSE IF Len(log) = 2 /\ log[2].n = KmSuccess THEN Returned("Lvxy")
                ELSE Raised("RuntimeError", log[Len(log)].n)
       /\ res # Returned("None")

C21_Witness ==
    /\ Finished /\ op.name = "read_sample_data"
    /\ Len(log) = 2
    /\ log[1].n = ErNoData /\ log[2].n = UnlistedCode
    /\ res = Raised("RuntimeError", UnlistedCode)

\* the setters C22 names
C22Setters ==
    {"display_type", "display_language", "date_format", "data_save_mode",
     "luminance_unit", "color_mode_display"}

\* C22: every key a setter's table lists is accepted, whatever vendor code it maps
\* to, code 0 included: the call never ends in the invalid-argument error and makes
\* exactly one vendor set call.
C22_ListedKeyAccepted ==
    (/\ op.name = "set"
     /\ setting \in C22Setters
     /\ op.arg \in KeySet(setting))
    => (/\ res.kind # "ValueError"
        /\ Len(log) = 1
        /\ log[1].kind = "call" /\ log[1].fn = "Set" /\ log[1].st = op.arg)

\* the operations C23 names
C23Operations == {"measure", "get_luminance", "get_color", "set"}

\* C23: with an instrument connected on every port, an operation called with
\* com_port = p addresses the instrument on p: each vendor call of measure,
\* get_luminance, get_color and of the setters of peak/valley, colour mode, backlight
\* level and measurement time is made for port p, and for no other port.
C23_AddressesItsPort ==
    (/\ \A p \in Ports : conn[p] # 0
     /\ op.name \in C23Operations
     /\ (op.name = "set" => setting \in PortSettings))
    => \A k \in CallIdx : log[k].port = op.port

\* C24: a failure while polling ends the wait: when a poll made by wait_for_idle (called
\* directly or by measure(wait=True)) answers a non-success code or a result of
\* unexpected shape, the call raises RuntimeError at that poll, issues no further
\* poll and does not apply the settle delay.
C24_PollFailureEndsWait ==
    Waiting
    => \A k \in PollIdx :
          log[k].n # KmSuccess
          => /\ k = Len(log)
             /\ Finished
             /\ res.kind = "RuntimeError"
             /\ \A j \in 1..Len(log) : log[j] # SleepEv(SettleMs)

\* C25: measure(wait=False) returns as soon as the vendor Measure call succeeded, with
\* no status poll and no settle delay; and for either value of wait, a Measure call
\* that answers a non-success code makes measure raise without any status poll.
C25_MeasureWithoutWait ==
    op.name = "measure"
    => /\ Len(log) >= 1
       /\ log[1].kind = "call" /\ log[1].fn = "Measure" /\ log[1].port = op.port
       /\ (~op.wait /\ log[1].n = KmSuccess)
             => (Finished /\ res = Returned("None") /\ Len(log) = 1 /\ polls = 0)
       /\ log[1].n # KmSuccess
             => (/\ Finished /\ res = Raised("RuntimeError", log[1].n)
                 /\ Len(log) = 1 /\ polls = 0)

C25_Witness ==
    /\ Finished /\ op.name = "measure" /\ ~op.wait
    /\ log = <<VendorCall("Measure", MaxPort, KmSuccess, "-")>>
    /\ res = Returned("None")
    /\ polls = 0

\* no connection is open: none was made, none succeeded, or each was closed
Unconnected == \A p \in Ports : conn[p] = 0

\* the operations C26 names: measure, get_luminance, get_color, getters and setters
C26Operations == {"measure", "get_luminance", "get_color", "get", "set"}

\* C26: an operation invoked while no connection is open never returns a value: the
\* vendor layer answering its call with ErNoConnect, the operation raises
\* RuntimeError for that code and makes no further vendor call; an operation that
\* ends before any vendor call ends in an exception too.
C26_UnconnectedRaises ==
    (Unconnected /\ op.name \in C26Operations)
    => /\ (HasCall /\ log[1].n = ErNoConnect)
             => (/\ Finished
                 /\ res = Raised("RuntimeError", ErNoConnect)
                 /\ Len(log) = 1)
       /\ (Finished /\ ~HasCall) => IsError(res)

C26_Witness ==
    /\ Unconnected
    /\ closed = {1}
    /\ cwd = "start"
    /\ op.name = "get" /\ setting = "peak_valley"
    /\ log[1].n = ErNoConnect
    /\ res = Raised("RuntimeError", ErNoConnect)

\* C27: a constructor that fails, because the sdk_bin folder is missing or because
\* environment setup or loading the SDK raises, raises and leaves the process working
\* directory as it was before the constructor was called, and constructs nothing.
C27_FailedInitKeepsCwd ==
    [][(op'.name = "__init__" /\ IsError(res'))
       => (/\ cwd' = cwd
           /\ obj' = obj
           /\ res'.kind \in {"FileNotFoundError", "RuntimeError"})]_vars

C27_Witness ==
    /\ op.name = "__init__"
    /\ res = Raised("RuntimeError", NoCode)
    /\ ~obj[op.inst].exists
    /\ Constructed = {}
    /\ cwd = "start"

\* C28: a getter that returns normally returns a translated value: when the vendor
\* result is not the (status, value) pair the getter raises RuntimeError; when its
\* status is not KmSuccess the getter raises RuntimeError for that status, whatever
\* the value; no getter returns None.
C28_GetterTranslates ==
    (op.name = "get" /\ Finished /\ Len(log) = 1)
    => /\ log[1].st \in {"nontuple", "badtuple"} => res = Raised("RuntimeError", NoCode)
       /\ log[1].n \notin {NoCode, KmSuccess} => res = Raised("RuntimeError", log[1].n)
       /\ res.kind = "ok" => (log[1].n = KmSuccess /\ res.val \notin {"None", "-"})

\* C29: disconnect() is idempotent: called with no prior connect, or a second time
\* right after a first call, it does not raise, and the working directory after the
\* second call is the one after the first.
C29_DisconnectIdempotent ==
    [][op'.name = "disconnect"
       => (/\ res' = Returned("None")
           /\ (op.name = "disconnect" /\ op.inst = op'.inst) => cwd' = cwd)]_vars

C29_Witness ==
    /\ Finished /\ op.name = "disconnect"
    /\ res = Returned("None")
    /\ closed = {op.inst}
    /\ Unconnected
    /\ Len(log) = 1 /\ log[1].n = ErNoConnect
    /\ cwd = "start"

====
